---- MODULE Spec2Model ----
(***************************************************************************)
(* The HTTP query service of rust/src: thirteen query handlers that take a *)
(* connection from a bounded pool, run one of the queries p1..p13 and drop *)
(* the connection, and the /stats handler with its one-time CPU warm-up.   *)
(*                                                                         *)
(* Spec       the pool and the thirteen query handlers (main.rs 72-294,    *)
(*            lib.rs 17-29, queries.rs)                                    *)
(* StatsSpec  the /stats handler (main.rs 41-70)                           *)
(***************************************************************************)
EXTENDS Integers, Sequences, FiniteSets, TLC

\* ---------------------------------------------------------------- bounds
\* Concurrent requests to the query handlers.
NumRequests == 2
\* Largest pool explored. The configured max_size(128) and min_idle(16) of
\* lib.rs 23-24 are scaled down: every pool with 1 <= min_idle <= max_size <=
\* MaxPool is explored.
MaxPool == 2
\* Concurrent callers of /stats.
NumStatsCallers == 3
\* Rows of customers, and the largest limit and offset asked for.
MaxCustomers == 3
MaxLimit == 3
\* Rows of orders and of order_details.
MaxOrders == 2
MaxDetails == 2

\* ------------------------------------------------------ program constants
\* connection_timeout, in seconds (lib.rs 25).
connection_timeout == 5
\* The settle delay of the warm-up, in milliseconds (main.rs 57).
SettleDelayMs == 200
\* params.limit.unwrap_or(100), params.offset.unwrap_or(0) (main.rs 80-81).
DefaultLimit == 100
DefaultOffset == 0

Requests == 1..NumRequests
StatsCallers == 1..NumStatsCallers
NoConn == 0
\* One identity more than the pool may open, so that an overshoot is a state.
ConnIds == 1..(MaxPool + 1)

\* ------------------------------------------------------------- the routes
\* Router of main (main.rs 304-322): path |-> handler, the query it calls and
\* whether the database work is offloaded with spawn_blocking.
Routes ==
  [ customers |-> [handler |-> "get_customers", query |-> "p1", offload |-> FALSE],
    customer_by_id |-> [handler |-> "get_customer_by_id", query |-> "p2", offload |-> TRUE],
    search_customer |-> [handler |-> "search_customer", query |-> "p3", offload |-> TRUE],
    employees |-> [handler |-> "get_employees", query |-> "p4", offload |-> TRUE],
    employee_with_recipient |-> [handler |-> "get_employee_with_recipient", query |-> "p5", offload |-> TRUE],
    suppliers |-> [handler |-> "get_suppliers", query |-> "p6", offload |-> TRUE],
    supplier_by_id |-> [handler |-> "get_supplier_by_id", query |-> "p7", offload |-> TRUE],
    products |-> [handler |-> "get_products", query |-> "p8", offload |-> TRUE],
    product_with_supplier |-> [handler |-> "get_product_with_supplier", query |-> "p9", offload |-> TRUE],
    search_product |-> [handler |-> "search_product", query |-> "p10", offload |-> TRUE],
    orders_with_details |-> [handler |-> "get_orders_with_details", query |-> "p11", offload |-> TRUE],
    order_with_details |-> [handler |-> "get_order_with_details", query |-> "p12", offload |-> TRUE],
    order_with_details_and_products |-> [handler |-> "get_order_with_details_and_products", query |-> "p13", offload |-> TRUE] ]

RouteNames == DOMAIN Routes

\* The parameter struct each query takes (main.rs 25-39).
ListQueries == {"p1", "p4", "p6", "p8", "p11"}
IdQueries == {"p2", "p5", "p7", "p9", "p12", "p13"}
SearchQueries == {"p3", "p10"}

\* The rows of the backing store that the id queries can hit, and the ids a
\* request may ask for (2 matches no row).
StoredIds == {1}
IdParams == {1, 2}
\* Search terms: one that matches, one that matches nothing, and one that
\* to_tsquery rejects.
SearchParams == {"match", "nomatch", "malformed"}

\* The decoded parameter of a request: the id of an IdParam, the term of a
\* SearchParam; a LimitOffset carries neither.
NoParam == [id |-> 0, term |-> ""]

ParamsOf(q) ==
  IF q \in IdQueries THEN {[id |-> i, term |-> ""] : i \in IdParams}
  ELSE IF q \in SearchQueries THEN {[id |-> 0, term |-> t] : t \in SearchParams}
  ELSE {NoParam}

\* ------------------------------------------------------------------ state
VARIABLES
  max_size,    \* Pool: the configured max_size
  min_idle,    \* Pool: the configured min_idle
  idle,        \* Pool: the open connections nobody holds
  opened,      \* Pool: connections opened since the pool was built
  conn,        \* per request: the connection it holds (let mut conn), or NoConn
  pc,          \* per request: where its handler stands
  route,       \* per request: the path it was sent to
  param,       \* per request: its decoded query parameter
  waited,      \* per request: seconds spent so far inside pool.get()
  broken,      \* per request: the link of the held connection broke
  res,         \* per request: what the handler's Result is
  trace,       \* per request: acquire / execute / release, in program order
  cancelled,   \* per request: the caller dropped the request
  status,      \* per request: the status code answered, 0 before
  cpu_warmed_up, \* AppState.cpu_warmed_up
  warmed_lock,   \* holder of the cpu_warmed_up mutex, 0 if free
  sys_lock,      \* holder of the sys mutex, 0 if free
  refreshes,     \* System: refresh_cpu_all() calls so far
  spc,           \* per /stats caller: where stats_handler stands
  needs_warmup,  \* per /stats caller: its local needs_warmup
  strace,        \* per /stats caller: refresh / sleep, in program order
  qop,           \* the query handler whose result is computed, "none" if none
  customers,     \* table customers: its ids, in storage order
  orders,        \* table orders: its ids, in storage order
  order_details, \* table order_details: its rows, in storage order
  limit_offset,  \* the decoded LimitOffset of the request
  id_param,      \* the decoded IdParam.id of the request
  out            \* what the handler got from its query, <<>> before

cfgVars == <<max_size, min_idle>>
poolVars == <<cfgVars, idle, opened, conn, pc, route, param, waited, broken, res, trace, cancelled, status>>
statsVars == <<cpu_warmed_up, warmed_lock, sys_lock, refreshes, spc, needs_warmup, strace>>
dataVars == <<qop, customers, orders, order_details, limit_offset, id_param, out>>
vars == <<poolVars, statsVars, dataVars>>

Min(S) == CHOOSE x \in S : \A y \in S : x <= y

Held == {conn[r] : r \in Requests} \ {NoConn}
Holders(c) == {r \in Requests : conn[r] = c}
CheckedOut == Cardinality({r \in Requests : conn[r] # NoConn})
Open == idle \cup Held
Waiters == {r \in Requests : pc[r] = "get"}

\* ------------------------------------------------------------- the pool
\* Pool::builder().max_size(..).min_idle(..): the pool opens a connection
\* while it is below max_size and short of idle ones.
CanOpenNoCap(nOpen, nIdle) == nIdle < min_idle
CanOpen(nOpen, nIdle) == nOpen < max_size /\ nIdle < min_idle

\* pool.get() takes the connection out of the idle set.
IdleAfterCheckoutKept(c) == idle
IdleAfterCheckout(c) == idle \ {c}

\* connection_timeout(5 s): get() gives up once it waited that long.
TimedOutAtOnce(w) == w >= 0
TimedOut(w) == w = connection_timeout

\* Dropping the pooled connection: a broken one is closed, any other goes
\* back to the idle set.
IdleAfterDrop(c, brk) == IF brk THEN idle ELSE idle \cup {c}

\* ------------------------------------------------------------ the queries
\* What a statement yields when the backing store executes it: "rows", an
\* empty list, or no row for first().optional().
Yield(q, p) ==
  IF q \in ListQueries THEN "rows"
  ELSE IF q \in SearchQueries THEN (IF p.term = "match" THEN "rows" ELSE "empty")
  ELSE IF p.id \in StoredIds THEN "rows" ELSE "null"

\* to_tsquery('english', $1) raises on a malformed term.
Rejects(q, p) == q \in SearchQueries /\ p.term = "malformed"

\* p13 after its first statement: return Ok(None) when no order row came back,
\* go on to the details statement otherwise (queries.rs 409-412).
AfterOrderFetchAlways(found) == "query2"
AfterOrderFetch(found) == IF found THEN "query2" ELSE "return"

\* .map(Json) / .map_err(|_| StatusCode::INTERNAL_SERVER_ERROR)
Errors == {"PoolExhausted", "QueryError"}
StatusOfNotFound(x) == IF x \in Errors THEN 500 ELSE IF x = "null" THEN 404 ELSE 200
StatusOf(x) == IF x \in Errors THEN 500 ELSE 200

\* A dropped request future does not stop the closure given to
\* spawn_blocking, and a handler without an await point cannot be dropped
\* half way.
PcAfterCancelAbort(p) == IF p \in {"get", "query", "query2", "return"} THEN "finished" ELSE p
PcAfterCancel(p) == p

\* The connection variable after the closure returned: dropped on every path.
ConnAfterReturnLeak(c, x) == IF x = "QueryError" THEN c ELSE NoConn
ConnAfterReturn(c, x) == NoConn

\* An Err of a statement leaves the query function at once (`?`, or the Err
\* is the value returned): the statement is not run again.
AfterStatementErrorRetry(p) == p
AfterStatementError(p) == "return"

\* p13 after its details statement (queries.rs 435-452): `.await?` returns
\* the Err, and only loaded details are put into Ok(Some(order)).
ResultOfDetailsDefault(loaded) == "rows"
ResultOfDetails(loaded) == IF loaded THEN "rows" ELSE "QueryError"

\* A statement runs on the connection the request holds.
CanExecuteUnheld(r) == pc[r] \in {"get", "query"}
CanExecute(r) == pc[r] = "query" /\ conn[r] # NoConn

\* ------------------------------------------------- the results of queries
\* Option<T> and a nullable column: <<>> is None / NULL, <<v>> is Some(v).
None == <<>>
Some(v) == <<v>>
UnwrapOr(opt, default) == IF opt = None THEN default ELSE opt[1]

Range(seq) == {seq[i] : i \in DOMAIN seq}

\* ORDER BY id ASC over a set of ids.
RECURSIVE OrderByIdAsc(_)
OrderByIdAsc(ids) ==
  IF ids = {} THEN <<>>
  ELSE LET m == Min(ids) IN <<m>> \o OrderByIdAsc(ids \ {m})

\* OFFSET n and LIMIT n of a row sequence.
Offset(rows, n) == SubSeq(rows, n + 1, Len(rows))
Limit(rows, n) == SubSeq(rows, 1, IF n < Len(rows) THEN n ELSE Len(rows))

\* p1 (queries.rs 58-69): order_by(id.asc()).limit(limit_).offset(offset_),
\* which is ORDER BY id LIMIT .. OFFSET ..: the offset rows are skipped first.
P1LimitFirst(limit_, offset_) == Offset(Limit(OrderByIdAsc(Range(customers)), limit_), offset_)
P1(limit_, offset_) == Limit(Offset(OrderByIdAsc(Range(customers)), offset_), limit_)

\* orders LEFT JOIN order_details ON order_details.order_id = orders.id, for
\* one order: its detail rows, or one row of NULLs when it has none.
RECURSIVE SelectSeq2(_, _)
SelectSeq2(rows, oid) ==
  IF rows = <<>> THEN <<>>
  ELSE (IF Head(rows).order_id = oid
          THEN <<[product_id |-> Some(Head(rows).product_id),
                  quantity |-> Some(Head(rows).quantity),
                  unit_price |-> Some(Head(rows).unit_price)]>>
          ELSE <<>>) \o SelectSeq2(Tail(rows), oid)

NullDetail == [product_id |-> None, quantity |-> None, unit_price |-> None]

LeftJoin(oid) ==
  LET matched == SelectSeq2(order_details, oid)
  IN IF matched = <<>> THEN <<NullDetail>> ELSE matched

\* count(col): the rows where col is not NULL.
SqlCount(vals) == Cardinality({i \in DOMAIN vals : vals[i] # None})

\* sum(col): NULL when no row has a value, their sum otherwise.
RECURSIVE SumOf(_)
SumOf(vals) ==
  IF vals = <<>> THEN 0
  ELSE (IF Head(vals) = None THEN 0 ELSE Head(vals)[1]) + SumOf(Tail(vals))

SqlSumZero(vals) == Some(SumOf(vals))
SqlSum(vals) == IF SqlCount(vals) = 0 THEN None ELSE Some(SumOf(vals))

\* qty * unit_price of a joined row: NULL when a factor is NULL.
Times(a, b) == IF a = None \/ b = None THEN None ELSE Some(a[1] * b[1])

\* The select list of p11 and p12 for the group of one order (queries.rs
\* 40-49, 343-352).
P11Row(oid) ==
  LET group == LeftJoin(oid)
  IN [ id |-> oid,
       products_count |-> SqlCount([i \in DOMAIN group |-> group[i].product_id]),
       quantity_sum |-> SqlSum([i \in DOMAIN group |-> group[i].quantity]),
       total_price |-> SqlSum([i \in DOMAIN group |->
                                 Times(group[i].quantity, group[i].unit_price)]) ]

\* p11 (queries.rs 24-55): one row for each order, by id, limit and offset.
P11(limit_, offset_) ==
  LET ids == Limit(Offset(OrderByIdAsc(Range(orders)), offset_), limit_)
  IN [i \in DOMAIN ids |-> P11Row(ids[i])]

\* p12 (queries.rs 330-356): filter(orders::id.eq(id_)) ... first().optional().
P12(id_) == IF id_ \in Range(orders) THEN Some(P11Row(id_)) ELSE None

\* No query result is being computed.
DataQuiet ==
  /\ qop = "none"
  /\ customers = <<>>
  /\ orders = <<>>
  /\ order_details = <<>>
  /\ limit_offset = [limit |-> None, offset |-> None]
  /\ id_param = 0
  /\ out = <<>>

\* ---------------------------------------------------------- initial state
\* main (main.rs 297-302): the pool is built with its min_idle connections
\* open and idle, the flag is false, no request has arrived.
ServiceInit ==
  /\ max_size \in 1..MaxPool
  /\ min_idle \in 1..max_size
  /\ idle = 1..min_idle
  /\ opened = 0
  /\ conn = [r \in Requests |-> NoConn]
  /\ pc = [r \in Requests |-> "new"]
  /\ route = [r \in Requests |-> "none"]
  /\ param = [r \in Requests |-> NoParam]
  /\ waited = [r \in Requests |-> 0]
  /\ broken = [r \in Requests |-> FALSE]
  /\ res = [r \in Requests |-> "none"]
  /\ trace = [r \in Requests |-> <<>>]
  /\ cancelled = [r \in Requests |-> FALSE]
  /\ status = [r \in Requests |-> 0]
  /\ cpu_warmed_up = FALSE
  /\ warmed_lock = 0
  /\ sys_lock = 0
  /\ refreshes = 0
  /\ spc = [c \in StatsCallers |-> "new"]
  /\ needs_warmup = [c \in StatsCallers |-> FALSE]
  /\ strace = [c \in StatsCallers |-> <<>>]

Init == ServiceInit /\ DataQuiet

Query(r) == Routes[route[r]].query
Offloaded(r) == Routes[route[r]].offload

\* ------------------------------------------------ the query handlers
\* A request is routed to one of the thirteen handlers with its parameter
\* decoded (requests are numbered in their order of arrival).
Arrive(r) ==
  /\ pc[r] = "new"
  /\ \A o \in Requests : o < r => pc[o] # "new"
  /\ \E rt \in RouteNames : \E p \in ParamsOf(Routes[rt].query) :
       /\ route' = [route EXCEPT ![r] = rt]
       /\ param' = [param EXCEPT ![r] = p]
  /\ pc' = [pc EXCEPT ![r] = "arrived"]
  /\ UNCHANGED <<idle, conn, waited, broken, res, trace, cancelled, status, statsVars, dataVars, cfgVars, opened>>

\* The handler is polled: get_customers calls pool.get() on the request task,
\* the twelve others hand their closure to spawn_blocking, which calls it.
Poll(r) ==
  /\ pc[r] = "arrived"
  /\ ~cancelled[r]
  /\ pc' = [pc EXCEPT ![r] = "get"]
  /\ UNCHANGED <<idle, conn, route, param, waited, broken, res, trace, cancelled, status, statsVars, dataVars, cfgVars, opened>>

\* pool.get() returns Ok: an idle connection is checked out.
Checkout(r) ==
  /\ pc[r] = "get"
  /\ \E c \in idle :
       /\ idle' = IdleAfterCheckout(c)
       /\ conn' = [conn EXCEPT ![r] = c]
  /\ pc' = [pc EXCEPT ![r] = "query"]
  /\ trace' = [trace EXCEPT ![r] = Append(@, "acquire")]
  /\ waited' = [waited EXCEPT ![r] = 0]
  /\ UNCHANGED <<route, param, broken, res, cancelled, status, statsVars, dataVars, cfgVars, opened>>

\* The pool opens one more connection and puts it in the idle set.
AddConnection ==
  /\ CanOpen(Cardinality(Open), Cardinality(idle))
  /\ idle' = idle \cup {Min(ConnIds \ Open)}
  /\ opened' = opened + 1
  /\ UNCHANGED <<conn, pc, route, param, waited, broken, res, trace, cancelled, status, statsVars, dataVars, cfgVars>>

\* One second passes for every caller blocked in pool.get(). A blocked caller
\* is woken as soon as a connection is idle, so no time passes while one is.
Tick ==
  /\ Waiters # {}
  /\ idle = {}
  /\ \A r \in Waiters : waited[r] < connection_timeout
  /\ waited' = [r \in Requests |-> IF r \in Waiters THEN waited[r] + 1 ELSE waited[r]]
  /\ UNCHANGED <<idle, conn, pc, route, param, broken, res, trace, cancelled, status, statsVars, dataVars, cfgVars, opened>>

\* pool.get() returns Err after connection_timeout: the `?` leaves the
\* closure with 500 and no connection.
GetTimeout(r) ==
  /\ pc[r] = "get"
  /\ TimedOut(waited[r])
  /\ res' = [res EXCEPT ![r] = "PoolExhausted"]
  /\ pc' = [pc EXCEPT ![r] = "finished"]
  /\ waited' = [waited EXCEPT ![r] = 0]
  /\ UNCHANGED <<idle, conn, route, param, broken, trace, cancelled, status, statsVars, dataVars, cfgVars, opened>>

\* The statement of p1..p12, or the order fetch of p13, runs on the held
\* connection. The backing store may fail it, and the failure may be the
\* loss of the link.
Execute(r) ==
  /\ CanExecute(r)
  /\ trace' = [trace EXCEPT ![r] = Append(@, "execute")]
  /\ \/ \E lost \in BOOLEAN :
          /\ res' = [res EXCEPT ![r] = "QueryError"]
          /\ broken' = [broken EXCEPT ![r] = lost]
          /\ pc' = [pc EXCEPT ![r] = AfterStatementError(@)]
     \/ /\ Rejects(Query(r), param[r])
        /\ res' = [res EXCEPT ![r] = "QueryError"]
        /\ pc' = [pc EXCEPT ![r] = AfterStatementError(@)]
        /\ UNCHANGED broken
     \/ /\ ~Rejects(Query(r), param[r])
        /\ Query(r) # "p13"
        /\ res' = [res EXCEPT ![r] = Yield(Query(r), param[r])]
        /\ pc' = [pc EXCEPT ![r] = "return"]
        /\ UNCHANGED broken
     \/ /\ Query(r) = "p13"
        /\ pc' = [pc EXCEPT ![r] = AfterOrderFetch(param[r].id \in StoredIds)]
        /\ res' = [res EXCEPT ![r] = IF pc'[r] = "return" THEN "null" ELSE @]
        /\ UNCHANGED broken
  /\ UNCHANGED <<idle, conn, route, param, waited, cancelled, status, statsVars, dataVars, cfgVars, opened>>

\* The details statement of p13 (queries.rs 414-435).
ExecuteDetails(r) ==
  /\ pc[r] = "query2"
  /\ trace' = [trace EXCEPT ![r] = Append(@, "details")]
  /\ \/ \E lost \in BOOLEAN :
          /\ res' = [res EXCEPT ![r] = ResultOfDetails(FALSE)]
          /\ broken' = [broken EXCEPT ![r] = lost]
     \/ /\ res' = [res EXCEPT ![r] = ResultOfDetails(TRUE)]
        /\ UNCHANGED broken
  /\ pc' = [pc EXCEPT ![r] = "return"]
  /\ UNCHANGED <<idle, conn, route, param, waited, cancelled, status, statsVars, dataVars, cfgVars, opened>>

\* The closure (the handler body for get_customers) returns its Result and
\* `conn` goes out of scope.
Return(r) ==
  /\ pc[r] = "return"
  /\ conn' = [conn EXCEPT ![r] = ConnAfterReturn(@, res[r])]
  /\ idle' = IF conn'[r] = NoConn THEN IdleAfterDrop(conn[r], broken[r]) ELSE idle
  /\ trace' = [trace EXCEPT ![r] =
                 IF conn'[r] # NoConn THEN @
                 ELSE Append(@, IF broken[r] THEN "discard" ELSE "release")]
  /\ pc' = [pc EXCEPT ![r] = "finished"]
  /\ UNCHANGED <<route, param, waited, broken, res, cancelled, status, statsVars, dataVars, cfgVars, opened>>

\* The Result is turned into the response. A cancelled request gets none.
Respond(r) ==
  /\ pc[r] = "finished"
  /\ ~cancelled[r]
  /\ status[r] = 0
  /\ status' = [status EXCEPT ![r] = StatusOf(res[r])]
  /\ UNCHANGED <<idle, conn, pc, route, param, waited, broken, res, trace, cancelled, statsVars, dataVars, cfgVars, opened>>

\* The caller goes away. The future of an offloaded handler is dropped at its
\* .await on the JoinHandle; get_customers has no await point, so it can be
\* dropped only before it is polled or after it returned.
Cancel(r) ==
  /\ pc[r] # "new"
  /\ status[r] = 0
  /\ ~cancelled[r]
  /\ Offloaded(r) \/ pc[r] \in {"arrived", "finished"}
  /\ cancelled' = [cancelled EXCEPT ![r] = TRUE]
  /\ pc' = [pc EXCEPT ![r] = PcAfterCancel(@)]
  /\ UNCHANGED <<idle, conn, route, param, waited, broken, res, trace, status, statsVars, dataVars, cfgVars, opened>>

Next ==
  \/ \E r \in Requests : Arrive(r)
  \/ \E r \in Requests : Poll(r)
  \/ \E r \in Requests : Checkout(r)
  \/ AddConnection
  \/ Tick
  \/ \E r \in Requests : GetTimeout(r)
  \/ \E r \in Requests : Execute(r)
  \/ \E r \in Requests : ExecuteDetails(r)
  \/ \E r \in Requests : Return(r)
  \/ \E r \in Requests : Respond(r)
  \/ \E r \in Requests : Cancel(r)

Spec == Init /\ [][Next]_vars

\* The threads that run the closures and the pool's timer are scheduled: a
\* step of a handler that stays possible is taken. Arrivals and cancellations
\* are the callers' choice, and opening a connection may fail for ever.
Fairness ==
  /\ WF_vars(Tick)
  /\ \A r \in Requests :
       /\ WF_vars(Checkout(r))
       /\ WF_vars(GetTimeout(r))
       /\ WF_vars(Execute(r))
       /\ WF_vars(ExecuteDetails(r))
       /\ WF_vars(Return(r))

FairSpec == Spec /\ Fairness

\* ------------------------------------------------------- the /stats handler
\* The check-and-set under the cpu_warmed_up lock (main.rs 44-49): the caller
\* that finds the flag false needs the warm-up, and the flag is true after.
NeedsWarmup(warmed) == ~warmed
WarmedAfterCheckUnset(warmed) == warmed
WarmedAfterCheck(warmed) == TRUE

\* The steps of the warm-up branch (main.rs 52-58): lock sys, refresh, unlock,
\* sleep. Without it the handler goes straight to its sample.
AfterFlagUnlockNoWarmup(needs) == "lock_sys"
AfterFlagUnlock(needs) == IF needs THEN "warm_lock_sys" ELSE "lock_sys"

\* The inner block of the warm-up (main.rs 53-56) drops its sys guard before
\* the sleep.
SysLockAfterWarmupKept(c) == c
SysLockAfterWarmup(c) == 0

StatsCall(c) ==
  /\ spc[c] = "new"
  /\ spc' = [spc EXCEPT ![c] = "lock_flag"]
  /\ UNCHANGED <<cpu_warmed_up, warmed_lock, sys_lock, refreshes, needs_warmup, strace, poolVars, dataVars>>

\* state.cpu_warmed_up.lock()
LockFlag(c) ==
  /\ spc[c] = "lock_flag"
  /\ warmed_lock = 0
  /\ warmed_lock' = c
  /\ spc' = [spc EXCEPT ![c] = "check"]
  /\ UNCHANGED <<cpu_warmed_up, sys_lock, refreshes, needs_warmup, strace, poolVars, dataVars>>

\* if !*warmed { *warmed = true; true } else { false }
CheckAndSet(c) ==
  /\ spc[c] = "check"
  /\ needs_warmup' = [needs_warmup EXCEPT ![c] = NeedsWarmup(cpu_warmed_up)]
  /\ cpu_warmed_up' = WarmedAfterCheck(cpu_warmed_up)
  /\ spc' = [spc EXCEPT ![c] = "unlock_flag"]
  /\ UNCHANGED <<warmed_lock, sys_lock, refreshes, strace, poolVars, dataVars>>

\* The guard `warmed` is dropped at the end of the block.
UnlockFlag(c) ==
  /\ spc[c] = "unlock_flag"
  /\ warmed_lock' = 0
  /\ spc' = [spc EXCEPT ![c] = AfterFlagUnlock(needs_warmup[c])]
  /\ UNCHANGED <<cpu_warmed_up, sys_lock, refreshes, needs_warmup, strace, poolVars, dataVars>>

\* Warm-up: state.sys.lock()
WarmLockSys(c) ==
  /\ spc[c] = "warm_lock_sys"
  /\ sys_lock = 0
  /\ sys_lock' = c
  /\ spc' = [spc EXCEPT ![c] = "warm_refresh"]
  /\ UNCHANGED <<cpu_warmed_up, warmed_lock, refreshes, needs_warmup, strace, poolVars, dataVars>>

\* Warm-up: sys.refresh_cpu_all()
WarmRefresh(c) ==
  /\ spc[c] = "warm_refresh"
  /\ refreshes' = refreshes + 1
  /\ strace' = [strace EXCEPT ![c] = Append(@, "refresh")]
  /\ spc' = [spc EXCEPT ![c] = "warm_unlock_sys"]
  /\ UNCHANGED <<cpu_warmed_up, warmed_lock, sys_lock, needs_warmup, poolVars, dataVars>>

\* Warm-up: the inner block ends and drops the sys guard; the sleep starts.
WarmUnlockSys(c) ==
  /\ spc[c] = "warm_unlock_sys"
  /\ sys_lock' = SysLockAfterWarmup(c)
  /\ spc' = [spc EXCEPT ![c] = "sleep"]
  /\ UNCHANGED <<cpu_warmed_up, warmed_lock, refreshes, needs_warmup, strace, poolVars, dataVars>>

\* tokio::time::sleep(Duration::from_millis(200)).await completes.
Wake(c) ==
  /\ spc[c] = "sleep"
  /\ strace' = [strace EXCEPT ![c] = Append(@, SettleDelayMs)]
  /\ spc' = [spc EXCEPT ![c] = "lock_sys"]
  /\ UNCHANGED <<cpu_warmed_up, warmed_lock, sys_lock, refreshes, needs_warmup, poolVars, dataVars>>

\* let mut sys = state.sys.lock()
LockSys(c) ==
  /\ spc[c] = "lock_sys"
  /\ sys_lock = 0
  /\ sys_lock' = c
  /\ spc' = [spc EXCEPT ![c] = "refresh"]
  /\ UNCHANGED <<cpu_warmed_up, warmed_lock, refreshes, needs_warmup, strace, poolVars, dataVars>>

\* sys.refresh_cpu_all(): the sample that is returned.
Refresh(c) ==
  /\ spc[c] = "refresh"
  /\ refreshes' = refreshes + 1
  /\ strace' = [strace EXCEPT ![c] = Append(@, "refresh")]
  /\ spc' = [spc EXCEPT ![c] = "collect"]
  /\ UNCHANGED <<cpu_warmed_up, warmed_lock, sys_lock, needs_warmup, poolVars, dataVars>>

\* The usages are collected into the Json body; the sys guard is dropped when
\* the handler returns.
Reply(c) ==
  /\ spc[c] = "collect"
  /\ sys_lock' = 0
  /\ spc' = [spc EXCEPT ![c] = "done"]
  /\ UNCHANGED <<cpu_warmed_up, warmed_lock, refreshes, needs_warmup, strace, poolVars, dataVars>>

StatsNext ==
  \/ \E c \in StatsCallers : StatsCall(c)
  \/ \E c \in StatsCallers : LockFlag(c)
  \/ \E c \in StatsCallers : CheckAndSet(c)
  \/ \E c \in StatsCallers : UnlockFlag(c)
  \/ \E c \in StatsCallers : WarmLockSys(c)
  \/ \E c \in StatsCallers : WarmRefresh(c)
  \/ \E c \in StatsCallers : WarmUnlockSys(c)
  \/ \E c \in StatsCallers : Wake(c)
  \/ \E c \in StatsCallers : LockSys(c)
  \/ \E c \in StatsCallers : Refresh(c)
  \/ \E c \in StatsCallers : Reply(c)

StatsSpec == Init /\ [][StatsNext]_vars

\* -------------------------------------------- the results of the handlers
\* The tables and parameters a result is computed from: ids are unique, and
\* every order_details.order_id is the id of an order.
InjSeqs(S) ==
  UNION {{f \in [1..k -> S] : \A i, j \in 1..k : i # j => f[i] # f[j]} : k \in 0..Cardinality(S)}
Opts(S) == {None} \cup {Some(v) : v \in S}
Quantities == {1, 2}
Prices == {5, 10}
DetailRows == [order_id : 1..MaxOrders, product_id : {1}, quantity : Quantities, unit_price : Prices]
DetailTables == UNION {[1..k -> DetailRows] : k \in 0..MaxDetails}
LimitOffsets == [limit : Opts(0..MaxLimit), offset : Opts(0..MaxLimit)]
NoLimitOffset == [limit |-> None, offset |-> None]

QueryInit ==
  /\ ServiceInit
  /\ max_size = 1
  /\ out = <<>>
  /\ \/ /\ qop = "customers"
        /\ customers \in InjSeqs(1..MaxCustomers)
        /\ limit_offset \in LimitOffsets
        /\ orders = <<>>
        /\ order_details = <<>>
        /\ id_param = 0
     \/ /\ qop \in {"orders_with_details", "order_with_details"}
        /\ customers = <<>>
        /\ orders \in InjSeqs(1..MaxOrders)
        /\ order_details \in DetailTables
        /\ \A i \in DOMAIN order_details : order_details[i].order_id \in Range(orders)
        /\ IF qop = "orders_with_details"
             THEN limit_offset \in LimitOffsets /\ id_param = 0
             ELSE limit_offset = NoLimitOffset /\ id_param \in 1..(MaxOrders + 1)

\* get_customers (main.rs 80-82): the defaults, then p1.
GetCustomers ==
  /\ qop = "customers"
  /\ out = <<>>
  /\ LET limit == UnwrapOr(limit_offset.limit, DefaultLimit)
         offset == UnwrapOr(limit_offset.offset, DefaultOffset)
     IN out' = <<[limit |-> limit, offset |-> offset, rows |-> P1(limit, offset)]>>
  /\ UNCHANGED <<qop, customers, orders, order_details, limit_offset, id_param, poolVars, statsVars>>

\* get_orders_with_details (main.rs 249-254): the defaults, then p11.
GetOrdersWithDetails ==
  /\ qop = "orders_with_details"
  /\ out = <<>>
  /\ LET limit == UnwrapOr(limit_offset.limit, DefaultLimit)
         offset == UnwrapOr(limit_offset.offset, DefaultOffset)
     IN out' = <<[limit |-> limit, offset |-> offset, rows |-> P11(limit, offset)]>>
  /\ UNCHANGED <<qop, customers, orders, order_details, limit_offset, id_param, poolVars, statsVars>>

\* get_order_with_details (main.rs 267-271): p12 of the id.
GetOrderWithDetails ==
  /\ qop = "order_with_details"
  /\ out = <<>>
  /\ out' = <<[limit |-> 1, offset |-> 0, rows |-> P12(id_param)]>>
  /\ UNCHANGED <<qop, customers, orders, order_details, limit_offset, id_param, poolVars, statsVars>>

QueryNext ==
  \/ GetCustomers
  \/ GetOrdersWithDetails
  \/ GetOrderWithDetails

QuerySpec == QueryInit /\ [][QueryNext]_vars

\* ------------------------------------------------------------ properties
Count(t, e) == Cardinality({i \in DOMAIN t : t[i] = e})
Acquires(r) == Count(trace[r], "acquire")
Releases(r) == Count(trace[r], "release") + Count(trace[r], "discard")
InFlight(r) == pc[r] \in {"get", "query", "query2", "return"}
Quiescent == \A r \in Requests : ~InFlight(r)
Discarded == Cardinality({r \in Requests : Count(trace[r], "discard") > 0})

\* C1: in every reachable state the number of connections checked out of the
\* pool, and the number of connections open, is at most max_size.
C1_CheckedOutBounded ==
  /\ CheckedOut <= max_size
  /\ Cardinality(Open) <= max_size

\* C1 witness: max_size connections are checked out while one more request
\* waits in pool.get().
C1_Witness == CheckedOut = max_size /\ Waiters # {}

\* C2: every open connection is either idle or held by exactly one request,
\* never both and never by two.
C2_NoSharedConnection ==
  /\ \A c \in ConnIds : Cardinality(Holders(c)) <= 1
  /\ \A c \in idle : Holders(c) = {}
  /\ \A r \in Requests : conn[r] # NoConn => conn[r] \in ConnIds

\* C2 witness: two requests hold a connection each at the same time and the
\* pool has none left idle.
C2_Witness ==
  \E a, b \in Requests :
    /\ a # b
    /\ conn[a] # NoConn
    /\ conn[b] # NoConn
    /\ idle = {}

\* The idle count of the pool as built, before any request.
PriorIdle == min_idle

\* C3 as stated: once no request is in flight, no connection is checked out
\* and the idle count is what it was before the requests.
C3_IdleCountRestored ==
  Quiescent => CheckedOut = 0 /\ Cardinality(idle) = PriorIdle

\* C3 amended: a finished request has released or discarded, exactly once,
\* the connection it acquired, on every exit path; once no request is in
\* flight no connection is checked out and the idle count is the prior count
\* plus the connections the pool opened minus the broken ones it discarded.
C3_AcquireMatchedByRelease ==
  /\ \A r \in Requests :
       /\ Acquires(r) <= 1
       /\ Releases(r) <= Acquires(r)
       /\ pc[r] = "finished" => Releases(r) = Acquires(r) /\ conn[r] = NoConn
       /\ Releases(r) < Acquires(r) => conn[r] # NoConn
  /\ Quiescent =>
       /\ CheckedOut = 0
       /\ Cardinality(idle) = PriorIdle + opened - Discarded

\* C3 witness: no request is in flight, and the finished ones left on each
\* exit path: rows, no row, a failed query.
C3_Witness ==
  /\ Quiescent
  /\ \E a, b \in Requests :
       /\ pc[a] = "finished" /\ res[a] = "QueryError" /\ Releases(a) = 1
       /\ pc[b] = "finished" /\ res[b] = "null" /\ Releases(b) = 1
       /\ Cardinality(idle) # PriorIdle

\* C4: a request cancelled while its database work is in flight still runs
\* that work to its end and releases (or discards) its connection exactly
\* once: a cancelled request that finished holds nothing, executed the
\* statement it acquired the connection for, and the pool's counts add up;
\* and a cancelled request in flight does finish.
C4_CancelledInv ==
  /\ \A r \in Requests :
       cancelled[r] /\ pc[r] = "finished" =>
         /\ conn[r] = NoConn
         /\ Releases(r) = Acquires(r)
         /\ Acquires(r) = 1 => Count(trace[r], "execute") = 1
         /\ Acquires(r) = 0 => res[r] = "PoolExhausted"
  /\ \A r \in Requests : cancelled[r] /\ pc[r] = "arrived" => trace[r] = <<>>
  /\ Cardinality(Open) = PriorIdle + opened - Discarded
  /\ CheckedOut = Cardinality(Held)

C5_WaitInv ==
  \A r \in Requests :
    /\ waited[r] <= connection_timeout
    /\ pc[r] # "get" => waited[r] = 0

C5_WaitStep ==
  /\ \A r \in Requests :
       /\ pc[r] = "get" /\ pc'[r] = "query" =>
            CheckedOut < max_size /\ conn'[r] \in idle
       /\ pc[r] = "get" /\ pc'[r] = "finished" =>
            waited[r] = connection_timeout /\ res'[r] = "PoolExhausted"
       /\ conn[r] # NoConn /\ conn'[r] = NoConn /\ ~broken[r] =>
            conn[r] \in idle'
  /\ (\E r \in Requests : waited'[r] > waited[r]) => idle = {}

C5_BlockedUntilReleaseOrTimeout ==
  /\ []C5_WaitInv
  /\ [][C5_WaitStep]_vars
  /\ \A r \in Requests : (pc[r] = "get") ~> (pc[r] # "get")

\* C5 witness: max_size connections were checked out, a further caller has
\* been blocked in pool.get() for less than connection_timeout, and a holder
\* has just released: its connection is idle for the blocked caller.
C5_Witness ==
  \E a, b \in Requests :
    /\ pc[a] = "get"
    /\ waited[a] > 0
    /\ waited[a] < connection_timeout
    /\ pc[b] = "finished"
    /\ Releases(b) = 1
    /\ idle # {}
    /\ Cardinality(Open) = max_size

\* ------------------------------------------------- properties of /stats
WarmedUp == {c \in StatsCallers : needs_warmup[c]}
Checked == {c \in StatsCallers : spc[c] \notin {"new", "lock_flag", "check"}}

\* C6: at most one caller of /stats finds the flag false, and exactly one
\* does once any caller has passed the check; the check and the set are one
\* step under the flag's lock (a caller between them holds the lock, so no
\* other caller is between them); once true the flag stays true.
C6_FlagInv ==
  /\ Cardinality(WarmedUp) <= 1
  /\ Checked # {} => Cardinality(WarmedUp) = 1 /\ cpu_warmed_up
  /\ \A c \in StatsCallers : spc[c] \in {"check", "unlock_flag"} <=> warmed_lock = c
  /\ \A c \in StatsCallers :
       spc[c] \in {"warm_lock_sys", "warm_refresh", "warm_unlock_sys", "sleep"} => needs_warmup[c]

C6_ExactlyOneWarmup ==
  /\ []C6_FlagInv
  /\ [][cpu_warmed_up => cpu_warmed_up']_vars

\* C6 witness: one caller is in its warm-up while two others, which found
\* the flag true, have passed the check.
C6_Witness ==
  \E a, b, c \in StatsCallers :
    /\ a # b /\ b # c /\ a # c
    /\ spc[a] = "sleep"
    /\ b \in Checked /\ ~needs_warmup[b]
    /\ c \in Checked /\ ~needs_warmup[c]

\* C7: the caller that found the flag false refreshes, sleeps the 200 ms and
\* refreshes again before it returns; every other caller refreshes once and
\* returns, with no extra pass and no sleep.
WarmTrace == <<"refresh", SettleDelayMs, "refresh">>
PlainTrace == <<"refresh">>
IsPrefix(s, t) == Len(s) <= Len(t) /\ \A i \in 1..Len(s) : s[i] = t[i]

C7_FirstCallSettles ==
  \A c \in StatsCallers :
    /\ spc[c] \in {"collect", "done"} =>
         strace[c] = IF needs_warmup[c] THEN WarmTrace ELSE PlainTrace
    /\ IsPrefix(strace[c], IF needs_warmup[c] THEN WarmTrace ELSE PlainTrace)
    /\ spc[c] = "sleep" => strace[c] = <<"refresh">>

\* C7 witness: the first caller has returned after its warm-up and a later
\* caller has returned after a single sample.
C7_Witness ==
  \E a, b \in StatsCallers :
    /\ spc[a] = "done" /\ needs_warmup[a] /\ strace[a] = WarmTrace
    /\ spc[b] = "done" /\ ~needs_warmup[b] /\ strace[b] = PlainTrace

\* --------------------------------------- properties of the query handlers
Last(t) == t[Len(t)]
Closings == {"release", "discard"}
FullTraces(q) ==
  IF q = "p13"
    THEN {<<"acquire", "execute", e>> : e \in Closings}
         \cup {<<"acquire", "execute", "details", e>> : e \in Closings}
    ELSE {<<"acquire", "execute", e>> : e \in Closings}

\* C8: within a request, the acquire comes before every statement and every
\* statement before the release: the events of a request are a prefix of
\* acquire, execute (and details for p13), release; the request holds its
\* connection from the acquire to the release; a statement runs on the held
\* connection and leaves it held; the release comes when the Result is there.
C8_OrderInv ==
  \A r \in Requests :
    /\ trace[r] # <<>> => \E t \in FullTraces(Query(r)) : IsPrefix(trace[r], t)
    /\ conn[r] # NoConn <=> Acquires(r) = 1 /\ Releases(r) = 0
    /\ pc[r] \in {"query", "query2", "return"} => conn[r] # NoConn
    /\ Releases(r) = 1 => res[r] # "none" /\ pc[r] = "finished"

C8_OrderStep ==
  \A r \in Requests :
    /\ Len(trace'[r]) > Len(trace[r]) /\ Last(trace'[r]) \in {"execute", "details"} =>
         conn[r] # NoConn /\ conn'[r] = conn[r]
    /\ Len(trace'[r]) > Len(trace[r]) /\ Last(trace'[r]) \in Closings =>
         pc[r] = "return" /\ res[r] # "none"

C8_AcquireExecuteRelease ==
  /\ []C8_OrderInv
  /\ [][C8_OrderStep]_vars

\* C8 witness: a request of p13 has acquired, run both statements and
\* released.
C8_Witness ==
  \E r \in Requests :
    /\ pc[r] = "finished"
    /\ trace[r] = <<"acquire", "execute", "details", "release">>

\* C9: p13 issues its details statement only after the order fetch returned
\* a row; for an id with no order row it returns absent, not an error, and
\* the details statement is never issued.
C9_DetailsOnlyAfterOrder ==
  \A r \in Requests :
    /\ Count(trace[r], "details") <= 1
    /\ Count(trace[r], "details") = 1 =>
         Query(r) = "p13" /\ param[r].id \in StoredIds /\ Count(trace[r], "execute") = 1
    /\ pc[r] = "query2" => Query(r) = "p13" /\ param[r].id \in StoredIds
    /\ pc[r] # "new" /\ Query(r) = "p13" /\ param[r].id \notin StoredIds =>
         /\ Count(trace[r], "details") = 0
         /\ pc[r] \in {"return", "finished"} /\ res[r] \notin Errors => res[r] = "null"
         /\ status[r] # 0 /\ res[r] = "null" => status[r] = 200

\* C9 witness: a request of p13 for an id without order row was answered 200
\* with the absent result after a single statement.
C9_Witness ==
  \E r \in Requests :
    /\ pc[r] # "new"
    /\ Query(r) = "p13"
    /\ param[r].id \notin StoredIds
    /\ res[r] = "null"
    /\ status[r] = 200
    /\ trace[r] = <<"acquire", "execute", "release">>

\* C10: a handler answers 200 exactly when the acquire and the query
\* succeeded, also when no row matched (null or empty), and 500 exactly when
\* pool.get() failed or a statement failed, a malformed search term included;
\* no other status is answered.
Payloads == {"rows", "empty", "null"}

C10_StatusCodes ==
  \A r \in Requests :
    /\ status[r] \in {0, 200, 500}
    /\ status[r] # 0 => pc[r] = "finished"
    /\ status[r] = 200 => res[r] \in Payloads
    /\ status[r] = 500 => res[r] \in Errors
    /\ res[r] \in Payloads =>
         Acquires(r) = 1 /\ Count(trace[r], "execute") = 1 /\ ~Rejects(Query(r), param[r])
    /\ res[r] = "PoolExhausted" => trace[r] = <<>>
    /\ res[r] = "QueryError" => Acquires(r) = 1 /\ Count(trace[r], "execute") = 1
    /\ pc[r] = "finished" /\ Acquires(r) = 1 /\ Rejects(Query(r), param[r]) =>
         res[r] = "QueryError"

\* C10 witness: one request was answered 200 with null for an id that matches
\* no row, another 500 for a malformed search term.
C10_Witness ==
  \E a, b \in Requests :
    /\ status[a] = 200 /\ res[a] = "null"
    /\ status[b] = 500 /\ res[b] = "QueryError"
    /\ pc[b] # "new" /\ Rejects(Query(b), param[b])

\* C11: a request attempts pool.get() at most once and runs each statement
\* at most once; once its Result is an error it neither enters pool.get()
\* nor runs a statement again, the error stays what it is and is answered
\* with 500.
C11_NoRetryInv ==
  \A r \in Requests :
    /\ Acquires(r) <= 1
    /\ Count(trace[r], "execute") <= 1
    /\ Count(trace[r], "details") <= 1
    /\ res[r] \in Errors => pc[r] \in {"return", "finished"}
    /\ res[r] \in Errors /\ status[r] # 0 => status[r] = 500

C11_NoRetryStep ==
  \A r \in Requests :
    /\ pc'[r] = "get" => pc[r] \in {"arrived", "get"}
    /\ res[r] \in Errors =>
         /\ res'[r] = res[r]
         /\ pc'[r] \in {"return", "finished"}
         /\ Acquires(r) = Count(trace'[r], "acquire")
         /\ Count(trace'[r], "execute") = Count(trace[r], "execute")
         /\ Count(trace'[r], "details") = Count(trace[r], "details")

C11_NoInternalRetry ==
  /\ []C11_NoRetryInv
  /\ [][C11_NoRetryStep]_vars

\* C11 witness: one request was answered 500 after its only pool.get() timed
\* out, and another finished with the error of p13's details statement after
\* one run of each of its statements.
C11_Witness ==
  \E a, b \in Requests :
    /\ res[a] = "PoolExhausted" /\ status[a] = 500 /\ trace[a] = <<>>
    /\ pc[b] = "finished" /\ res[b] = "QueryError"
    /\ Count(trace[b], "execute") = 1 /\ Count(trace[b], "details") = 1

\* C15: a request acquires exactly once and never waits in pool.get() while
\* it holds a connection; p13 runs its two statements on one connection that
\* it holds from before the first to after the second; a details statement
\* that fails gives an error, never an order.
C15_OneConnectionInv ==
  \A r \in Requests :
    /\ Acquires(r) <= 1
    /\ pc[r] = "get" => conn[r] = NoConn /\ Acquires(r) = 0
    /\ pc[r] \in {"query", "query2", "return"} => Acquires(r) = 1 /\ conn[r] # NoConn
    /\ pc[r] = "finished" => Acquires(r) = 1 \/ res[r] = "PoolExhausted"
    /\ broken[r] => res[r] = "QueryError"
    /\ pc[r] # "new" /\ Query(r) = "p13" /\ res[r] = "rows" =>
         Count(trace[r], "details") = 1 /\ ~broken[r]

C15_OneConnectionStep ==
  \A r \in Requests :
    pc[r] \in {"query", "query2"} => conn'[r] = conn[r] /\ conn[r] # NoConn

C15_SingleAcquisition ==
  /\ []C15_OneConnectionInv
  /\ [][C15_OneConnectionStep]_vars

\* C15 witness: with the pool full and another request blocked in
\* pool.get(), a request of p13 has run both statements on the connection it
\* holds, and the second one failed.
C15_Witness ==
  \E a, b \in Requests :
    /\ pc[a] = "return"
    /\ trace[a] = <<"acquire", "execute", "details">>
    /\ res[a] = "QueryError"
    /\ CheckedOut = max_size
    /\ pc[b] = "get"
    /\ waited[b] > 0

\* C14: no caller of /stats holds the flag lock and the sys lock together,
\* and a sleeping caller holds neither; a caller that waits for a lock waits
\* for a holder that is neither sleeping nor waiting itself, so while a
\* caller has not returned some caller can take a step (no deadlock), and a
\* caller that finds another one asleep in its warm-up is not kept waiting
\* by it.
LockWaiters == {c \in StatsCallers : spc[c] \in {"lock_flag", "warm_lock_sys", "lock_sys"}}
Running == {c \in StatsCallers : spc[c] \notin {"new", "done", "sleep"}} \ LockWaiters

C14_NoLockHeldAcrossSleep ==
  /\ \A c \in StatsCallers : ~(warmed_lock = c /\ sys_lock = c)
  /\ \A c \in StatsCallers : spc[c] = "sleep" => warmed_lock # c /\ sys_lock # c
  /\ warmed_lock # 0 => warmed_lock \in Running
  /\ sys_lock # 0 => sys_lock \in Running
  /\ (\E c \in StatsCallers : spc[c] # "done") => ENABLED StatsNext
  /\ \A c \in StatsCallers :
       (\A o \in StatsCallers \ {c} : spc[o] \in {"new", "sleep", "done"}) /\ spc[c] # "done"
         => ENABLED (StatsCall(c) \/ LockFlag(c) \/ CheckAndSet(c) \/ UnlockFlag(c)
                      \/ WarmLockSys(c) \/ WarmRefresh(c) \/ WarmUnlockSys(c) \/ Wake(c)
                      \/ LockSys(c) \/ Refresh(c) \/ Reply(c))

\* C14 witness: while one caller sleeps in its warm-up, another that arrived
\* later has taken its sample and returned.
C14_Witness ==
  \E a, b \in StatsCallers :
    /\ spc[a] = "sleep"
    /\ spc[b] = "done"
    /\ ~needs_warmup[b]

\* ------------------------------------- properties of the query results
\* The number of customers with a smaller id.
Rank(x) == Cardinality({y \in Range(customers) : y < x})

\* C12: list_customers returns at most limit rows, in strictly ascending id
\* order, and they are exactly the customers at positions offset up to
\* offset + limit of the ascending id sequence; an unset limit is 100 and
\* an unset offset 0.
C12_ListCustomersPage ==
  qop = "customers" /\ out # <<>> =>
    LET o == out[1] IN
      /\ o.limit = IF limit_offset.limit = None THEN 100 ELSE limit_offset.limit[1]
      /\ o.offset = IF limit_offset.offset = None THEN 0 ELSE limit_offset.offset[1]
      /\ Len(o.rows) <= o.limit
      /\ \A i, j \in DOMAIN o.rows : i < j => o.rows[i] < o.rows[j]
      /\ Range(o.rows) =
           {x \in Range(customers) : Rank(x) >= o.offset /\ Rank(x) < o.offset + o.limit}

\* C12 witness: three customers stored out of id order, offset 1 and limit 1
\* given: the page is the second smallest id alone.
C12_Witness ==
  /\ qop = "customers"
  /\ out # <<>>
  /\ customers = <<3, 1, 2>>
  /\ limit_offset = [limit |-> Some(1), offset |-> Some(1)]
  /\ out[1].rows = <<2>>

\* The sum of the function f over the set D of row numbers.
RECURSIVE SumOver(_, _)
SumOver(D, f) ==
  IF D = {} THEN 0
  ELSE LET i == CHOOSE i \in D : TRUE IN f[i] + SumOver(D \ {i}, f)

DetailsOf(oid) == {i \in DOMAIN order_details : order_details[i].order_id = oid}
Qty == [i \in DOMAIN order_details |-> order_details[i].quantity]
Price == [i \in DOMAIN order_details |-> order_details[i].quantity * order_details[i].unit_price]

AggregateOk(row) ==
  LET D == DetailsOf(row.id) IN
    /\ row.products_count = Cardinality(D)
    /\ row.quantity_sum = IF D = {} THEN None ELSE Some(SumOver(D, Qty))
    /\ row.total_price = IF D = {} THEN None ELSE Some(SumOver(D, Price))

\* C13: every aggregate row of orders_with_details and order_with_details
\* carries the number of the order's details, the sum of their quantities
\* and the sum of quantity x unit_price, the sums absent (not 0) when the
\* order has no details; an order without details still has its row.
C13_OrderAggregates ==
  /\ qop = "orders_with_details" /\ out # <<>> =>
       LET o == out[1] IN
         /\ \A i \in DOMAIN o.rows : AggregateOk(o.rows[i])
         /\ o.limit >= Len(orders) /\ o.offset = 0 =>
              {o.rows[i].id : i \in DOMAIN o.rows} = Range(orders)
  /\ qop = "order_with_details" /\ out # <<>> =>
       LET o == out[1] IN
         /\ o.rows # None <=> id_param \in Range(orders)
         /\ o.rows # None => o.rows[1].id = id_param /\ AggregateOk(o.rows[1])

\* C13 witness: orders_with_details lists an order with the details
\* {qty 2, price 10}, {qty 1, price 5} as 2, 3, 25 and an order without
\* details as 0, absent, absent.
C13_Witness ==
  /\ qop = "orders_with_details"
  /\ out # <<>>
  /\ order_details = <<[order_id |-> 1, product_id |-> 1, quantity |-> 2, unit_price |-> 10],
                       [order_id |-> 1, product_id |-> 1, quantity |-> 1, unit_price |-> 5]>>
  /\ out[1].rows = <<[id |-> 1, products_count |-> 2, quantity_sum |-> Some(3), total_price |-> Some(25)],
                     [id |-> 2, products_count |-> 0, quantity_sum |-> None, total_price |-> None]>>

====
